---- MODULE Spec2Model ----
(***************************************************************************)
(* A model of plumadriver's Session (src/unnamed/part_000) and Browser     *)
(* (src/src/Browser/Browser.ts).                                           *)
(*                                                                         *)
(* The Session's methods do not call one another through the command       *)
(* switch (the SET TIMEOUTS, ELEMENT RETRIEVAL ... cases of process() are  *)
(* empty), so each component is explored by a specification of its own     *)
(* over the same variables:                                                *)
(*   SpecQueue     requestQueue and process()                              *)
(*   SpecTimeouts  setTimeouts() / getTimeouts()                           *)
(*   SpecMerge     mergeCapabilities()                                     *)
(*   SpecCaps      processCapabilities() / matchCapabilities()             *)
(*   SpecLocate    elementRetrieval()                                      *)
(*   SpecNav       navigateTo() and its pageLoad timer                     *)
(*   SpecCookies   Browser.addCookie() / getCookies() / getNamedCookie()   *)
(*   SpecElements  elementRetrieval() with Browser.getKnownElement()       *)
(*   SpecSession   configureSession() with setTimeouts()                   *)
(*   SpecLinks     elementRetrieval() by link text                         *)
(*   SpecDelete    Browser.addCookie() / deleteCookies()                   *)
(***************************************************************************)
EXTENDS Integers, Sequences, FiniteSets, TLC

VARIABLES
  id,            \* Session.id: 0 is '' (constructor), n > 0 the n-th uuidv1()
  timeouts,      \* Session.timeouts: [implicit, pageLoad, script]
  browser,       \* Session.browser: [closed, knownElements]
  requestQueue,  \* Session.requestQueue: sequence of requests
  submitted,     \* history: every request ever submitted, in submission order
  pc,            \* per request id: where its process() call stands
  response,      \* per request id: the value its promise resolved with
  startOrder,    \* history: request ids in the order their switch was entered
  doneOrder,     \* history: request ids in the order their promise resolved
  call,          \* the last setTimeouts / getTimeouts call and what it returned
  caps,          \* the capability call under test: its input and its outcome
  loc,           \* the elementRetrieval call under test, the clock, the document
  nav,           \* the navigateTo call under test and its pageLoad timer
  dom,           \* Browser.dom: the document's URL and the cookie jar
  ret,           \* the last Browser call under test and what it returned
  conf,          \* the last configureSession call and what it returned
  pageLoadStrategy  \* Session.pageLoadStrategy

vars == <<id, timeouts, browser, requestQueue, submitted, pc, response,
          startOrder, doneOrder, call, caps, loc, nav, dom, ret, conf, pageLoadStrategy>>

(***************************************************************************)
(* Bounds of the exploration.                                              *)
(***************************************************************************)
MaxRequests == 3
MaxSessions == 2
MaxCapKeys == 3
MaxFirstMatch == 2
MaxClock == 3
MaxImplicit == 2
MaxElements == 2
MaxLocates == 2

RequestIds == 1..MaxRequests

(***************************************************************************)
(* JavaScript values. A value is a record [k, n, s]: k is its kind,        *)
(* n its number when it is an integer, s its text when it is a string.     *)
(***************************************************************************)
IntV(n) == [k |-> "int", n |-> n, s |-> ""]
StrV(s) == [k |-> "str", n |-> 0, s |-> s]
BoolV(b) == [k |-> "bool", n |-> IF b THEN 1 ELSE 0, s |-> ""]
Undefined == [k |-> "undefined", n |-> 0, s |-> ""]
\* an object that is the value of a property: s holds its properties
ObjV(pairs) == [k |-> "obj", n |-> 0, s |-> pairs]

(***************************************************************************)
(* The state after `new Session()`.                                        *)
(***************************************************************************)
DefaultImplicit == 0
DefaultPageLoad == 30000
DefaultScript == 3000

ConstructorTimeouts ==
  [implicit |-> IntV(DefaultImplicit),
   pageLoad |-> IntV(DefaultPageLoad),
   script |-> IntV(DefaultScript)]

\* new Browser(): the jsdom window is open and no element is known
NewBrowser == [closed |-> FALSE, knownElements |-> <<>>]

NoCall ==
  [op |-> "none", arg |-> <<>>, threw |-> FALSE, pre |-> ConstructorTimeouts,
   repeat |-> FALSE, fresh |-> FALSE, ret |-> Undefined]
NoCaps == [op |-> "none"]
\* no navigateTo call yet, no timer
NoNav ==
  [pc |-> "idle", url |-> "", timer |-> "none", elapsed |-> 0,
   error |-> "none", uncaught |-> 0, calls |-> 0]
\* new JSDOM(' '): the blank document and an empty cookie jar
AboutBlank == "about:blank"
NewDom == [url |-> AboutBlank, jar |-> <<>>]
NoRet ==
  [op |-> "none", calls |-> 0, arg |-> <<>>, error |-> "none", value |-> <<>>,
   pre |-> <<>>, after |-> <<>>, clone |-> <<>>, added |-> <<>>]
\* no configureSession call yet
NoConf ==
  [op |-> "none",
   request |-> [present |-> FALSE, hasAlways |-> FALSE, always |-> <<>>,
                hasFirst |-> FALSE, first |-> <<>>],
   error |-> "none", body |-> [sessionId |-> 0, capabilities |-> <<>>],
   pre |-> [id |-> 0, timeouts |-> ConstructorTimeouts],
   after |-> [id |-> 0, timeouts |-> ConstructorTimeouts,
              browser |-> NewBrowser, requestQueue |-> <<>>]]
\* no elementRetrieval call yet, the clock at 0, an empty document
NoLoc ==
  [pc |-> "idle", now |-> 0, doc |-> {}, calls |-> 0, strategy |-> "",
   start |-> 0, implicit |-> 0, attempts |-> 0, elements |-> <<>>,
   result |-> <<>>, error |-> "none"]

(***************************************************************************)
(* The command queue: Session.process                                      *)
(***************************************************************************)
\* constants.COMMANDS.DELETE_SESSION
DELETE_SESSION == "DELETE SESSION"

\* Command names a request may carry: the names process() switches on that
\* have a body ('DELETE', 'GET TITLE', 'FOO', 'BAR'), COMMANDS.DELETE_SESSION
\* (which is no case of the switch), and a name that is in neither table.
Commands == {"DELETE", DELETE_SESSION, "GET TITLE", "FOO", "BAR", "BOGUS"}

\* the case labels of the switch in process()
SwitchCases ==
  {"DELETE", "NAVIGATE", "GET TITLE", "ELEMENT RETRIEVAL", "GET ELEMENT TEXT",
   "NESTED ELEMENT RETRIEVAL", "SET TIMEOUTS", "GET TIMEOUTS", "FOO", "BAR"}

\* the values of the COMMANDS table
CommandTable ==
  {DELETE_SESSION, "GET TIMEOUTS", "SET TIMEOUTS", "NAVIGATE TO", "GET TITLE",
   "FIND ELEMENT", "FIND ELEMENTS", " FIND ELEMENT FROM ELEMENT",
   "FIND ELEMENTS FROM ELEMENTS", "GET ELEMENT TEXT", "GET CURRENT URL",
   "GET ALL COOKIES", "ADD COOKIE", "GET ELEMENT TAG NAME",
   "GET ELEMENT ATTRIBUTE", "EXECUTE SCRIPT"}

\* Browser.getTitle() of the document the browser holds
DocumentTitle == StrV("title")

Request(n, c, s) == [id |-> n, command |-> c, session |-> s]

\* line 31: `request.id !== this.requestQueue[0].id` is false
NoWaitInLine(n) == TRUE
LastInLine(n) == requestQueue[Len(requestQueue)].id = n
IsMyTurn(n) == requestQueue[1].id = n

\* the cases whose handler awaits before resolve(response) is reached
Suspends(c) == c \in {"DELETE", "FOO"}

\* the value `response` holds when a case that does not await reaches resolve
SyncResponse(c) ==
  CASE c = "GET TITLE" -> DocumentTitle
    [] c = "BAR" -> StrV("FINISHED BAR")
    [] OTHER -> Undefined

\* the value `response` holds when a suspended case resumes and reaches resolve
AsyncResponse(c) ==
  CASE c = "FOO" -> StrV("FINISHED FOO")
    [] OTHER -> Undefined

QueueInit ==
  /\ requestQueue = <<>>
  /\ submitted = <<>>
  /\ pc = [n \in RequestIds |-> "none"]
  /\ response = [n \in RequestIds |-> Undefined]
  /\ startOrder = <<>>
  /\ doneOrder = <<>>

\* The transport builds a request with a fresh id, pushes it on the queue of
\* the session and calls process(request), which enters its wait loop.
Submit(c) ==
  /\ Len(submitted) < MaxRequests
  /\ LET n == Len(submitted) + 1
         r == Request(n, c, id)
     IN /\ requestQueue' = Append(requestQueue, r)
        /\ submitted' = Append(submitted, r)
        /\ pc' = [pc EXCEPT ![n] = "waiting"]
  /\ UNCHANGED <<id, timeouts, browser, response, startOrder, doneOrder,
                 call, caps, loc,
                 nav, dom, ret, conf, pageLoadStrategy>>

\* line 31, the queue is empty: requestQueue[0] is undefined and reading its
\* id throws a TypeError out of process()
WaitThrows(n) ==
  /\ pc[n] = "waiting"
  /\ requestQueue = <<>>
  /\ pc' = [pc EXCEPT ![n] = "threw"]
  /\ UNCHANGED <<id, timeouts, browser, requestQueue, submitted, response,
                 startOrder, doneOrder, call, caps, loc,
                 nav, dom, ret, conf, pageLoadStrategy>>

\* line 31, another request is at the head: sleep(100) and test again
Sleep(n) ==
  /\ pc[n] = "waiting"
  /\ requestQueue # <<>>
  /\ ~IsMyTurn(n)
  /\ UNCHANGED vars

\* lines 33-96 up to the first await: the request is at the head, the promise
\* executor runs the switch. A case that does not await runs to
\* resolve(response); 'DELETE' calls browser.close() and awaits its result,
\* 'FOO' awaits the timer promise.
Dispatch(n) ==
  /\ pc[n] = "waiting"
  /\ requestQueue # <<>>
  /\ IsMyTurn(n)
  /\ LET c == requestQueue[1].command
     IN /\ browser' = IF c = "DELETE" THEN [browser EXCEPT !.closed = TRUE]
                      ELSE browser
        /\ startOrder' = Append(startOrder, n)
        /\ IF Suspends(c)
           THEN /\ pc' = [pc EXCEPT ![n] = "executing"]
                /\ UNCHANGED <<response, doneOrder>>
           ELSE /\ pc' = [pc EXCEPT ![n] = "done"]
                /\ response' = [response EXCEPT ![n] = SyncResponse(c)]
                /\ doneOrder' = Append(doneOrder, n)
  /\ UNCHANGED <<id, timeouts, requestQueue, submitted, call, caps, loc,
                 nav, dom, ret, conf, pageLoadStrategy>>

\* lines 69-70 and 87-88 after the await, then line 95: resolve(response).
\* process() ends here: nothing removes the request from requestQueue.
Resume(n) ==
  /\ pc[n] = "executing"
  /\ pc' = [pc EXCEPT ![n] = "done"]
  /\ response' = [response EXCEPT ![n] = AsyncResponse(submitted[n].command)]
  /\ doneOrder' = Append(doneOrder, n)
  /\ UNCHANGED <<id, timeouts, browser, requestQueue, submitted, startOrder,
                 call, caps, loc,
                 nav, dom, ret, conf, pageLoadStrategy>>

\* configureSession as far as the queue is concerned: the id is replaced
\* first (line 136); when configureCapabilties throws (ok = FALSE) nothing
\* else happens, otherwise the browser and the queue are replaced.
\* The timeouts it may set are left to the later part of the model.
ConfigureSessionQ(ok) ==
  /\ id < MaxSessions
  /\ id' = id + 1
  /\ IF ok
     THEN /\ browser' = NewBrowser
          /\ requestQueue' = <<>>
     ELSE UNCHANGED <<browser, requestQueue>>
  /\ UNCHANGED <<timeouts, submitted, pc, response, startOrder, doneOrder,
                 call, caps, loc,
                 nav, dom, ret, conf, pageLoadStrategy>>

\* the Session the constructor leaves
Constructor ==
  /\ id = 0
  /\ timeouts = ConstructorTimeouts
  /\ browser = NewBrowser
  /\ QueueInit

\* nothing has been called on the session or on its browser yet
NothingCalled ==
  /\ nav = NoNav
  /\ dom = NewDom
  /\ ret = NoRet
  /\ conf = NoConf
  /\ pageLoadStrategy = StrV("normal")

InitQueue ==
  /\ Constructor
  /\ call = NoCall
  /\ caps = NoCaps
  /\ loc = NoLoc
  /\ NothingCalled

NextQueue ==
  \/ \E c \in Commands : Submit(c)
  \/ \E n \in RequestIds : WaitThrows(n)
  \/ \E n \in RequestIds : Sleep(n)
  \/ \E n \in RequestIds : Dispatch(n)
  \/ \E n \in RequestIds : Resume(n)
  \/ \E ok \in BOOLEAN : ConfigureSessionQ(ok)

SpecQueue == InitQueue /\ [][NextQueue]_vars

\* One session that stays live: no configureSession after the first command,
\* so the queue is never emptied under a waiting request.
NextLive ==
  \/ \E c \in Commands : Submit(c)
  \/ \E n \in RequestIds : Sleep(n)
  \/ \E n \in RequestIds : Dispatch(n)
  \/ \E n \in RequestIds : Resume(n)

\* Fair scheduling and terminating handlers: a request that can leave its wait
\* loop does, and a suspended handler resumes.
FairSpecQueue ==
  /\ InitQueue
  /\ [][NextLive]_vars
  /\ \A n \in RequestIds : WF_vars(Dispatch(n)) /\ WF_vars(Resume(n))

(***************************************************************************)
(* Claims about the command queue                                          *)
(***************************************************************************)
Submitted == 1..Len(submitted)
SameSession(a, b) == submitted[a].session = submitted[b].session
\* the switch of request n has been entered
Started(n) == pc[n] \in {"executing", "done"}
\* the position of request n in a history of ids, 0 when it is not in it
Pos(log, n) ==
  IF \E i \in 1..Len(log) : log[i] = n
  THEN CHOOSE i \in 1..Len(log) : log[i] = n
  ELSE 0
\* request n was submitted to the session that is current now
Live(n) == n <= Len(submitted) /\ submitted[n].session = id

\* C1: for two commands A, B submitted to the same session, A before B (ids
\* are given in submission order), B's handler has not started unless A has
\* completed, and B's result is delivered only after A's: the started and the
\* completed commands of a session are each, in order, a prefix of the
\* commands submitted to it.
C1_SubmissionOrder ==
  \A a \in Submitted : \A b \in Submitted :
    (a < b /\ SameSession(a, b)) =>
      /\ Started(b) => (pc[a] = "done" /\ Pos(startOrder, a) < Pos(startOrder, b))
      /\ pc[b] = "done" =>
           (Pos(doneOrder, a) > 0 /\ Pos(doneOrder, a) < Pos(doneOrder, b))

\* C1 witness: A has run and delivered its result while B, submitted later to
\* the same session, is held in its wait loop.
C1_Witness ==
  \E a \in Submitted : \E b \in Submitted :
    /\ a < b /\ SameSession(a, b)
    /\ pc[a] = "done" /\ Pos(doneOrder, a) > 0
    /\ pc[b] = "waiting"
    /\ Len(requestQueue) >= 2

\* C2: at most one command of a session is inside its handler, and while a
\* handler is suspended no command submitted later to the same session has
\* started.
C2_OneAtATime ==
  \A a \in Submitted : \A b \in Submitted :
    (a # b /\ SameSession(a, b) /\ pc[a] = "executing") =>
      /\ pc[b] # "executing"
      /\ b > a => ~Started(b)

\* C2 witness: the asynchronous FOO handler is suspended on its timer and a
\* later command of the same session is waiting behind it.
C2_Witness ==
  \E a \in Submitted : \E b \in Submitted :
    /\ a < b /\ SameSession(a, b)
    /\ submitted[a].command = "FOO" /\ pc[a] = "executing"
    /\ pc[b] = "waiting"

\* C3: every command submitted to a live session eventually completes with a
\* result or an error (while its session stays the current one).
C3_EventuallyCompletes ==
  \A n \in RequestIds :
    (pc[n] = "waiting" /\ Live(n)) ~> (pc[n] \in {"done", "threw"} \/ ~Live(n))

\* C4: once a delete-session command (COMMANDS.DELETE_SESSION) has been
\* executed on the current session, the engine adapter has been closed.
C4_DeleteSessionCloses ==
  \A n \in Submitted :
    (submitted[n].command = DELETE_SESSION /\ Live(n) /\ pc[n] = "done")
      => browser.closed

\* C5: a command whose name is in no dispatch table never completes
\* successfully (it fails with "unknown command").
C5_UnknownCommandFails ==
  \A n \in Submitted :
    submitted[n].command \notin (SwitchCases \cup CommandTable) => pc[n] # "done"

(***************************************************************************)
(* The timeouts store: Session.setTimeouts / Session.getTimeouts           *)
(***************************************************************************)
TimeoutKeys == {"script", "pageLoad", "implicit"}

\* Values a client may send for a timeout: zero, a positive integer and a
\* negative one.
TimeoutInputs == {IntV(0), IntV(500), IntV(-1)}

\* The argument of setTimeouts: an object is the sequence of its <<key, value>>
\* pairs in Object.keys order, each key at most once.
Keys(obj) == {obj[i][1] : i \in 1..Len(obj)}
HasKey(obj, key) == \E i \in 1..Len(obj) : obj[i][1] = key
Get(obj, key) == obj[CHOOSE i \in 1..Len(obj) : obj[i][1] = key][2]
IsObject(obj) == \A i \in 1..Len(obj) : \A j \in 1..Len(obj) :
                   obj[i][1] = obj[j][1] => i = j
\* every object of at most n properties built from the <<key, value>> pairs
ObjectsFrom(pairs, n) ==
  {obj \in UNION {[1..m -> pairs] : m \in 0..n} : IsObject(obj)}
\* the object as a map: the set of its <<key, value>> pairs
AsMap(obj) == {obj[i] : i \in 1..Len(obj)}
\* obj[key] = value: an own property keeps its place, a new one is added last
Assign(obj, key, value) ==
  IF HasKey(obj, key)
  THEN [i \in 1..Len(obj) |-> IF obj[i][1] = key THEN <<key, value>> ELSE obj[i]]
  ELSE Append(obj, <<key, value>>)

TimeoutArgs ==
  ObjectsFrom(TimeoutKeys \X TimeoutInputs, Cardinality(TimeoutKeys))

\* CapabilityValidator.validateTimeouts(key, value): a known timeout and an
\* integer in [0, 2^53 - 1]
validateTimeouts(key, value) ==
  key \in TimeoutKeys /\ value.k = "int" /\ value.n >= 0

\* lines 120-123: the index of the first key whose value fails validation,
\* where forEach stops with InvalidArgument; 0 when every key passes
RECURSIVE FirstInvalid(_, _)
FirstInvalid(arg, i) ==
  IF i > Len(arg) THEN 0
  ELSE IF ~validateTimeouts(arg[i][1], arg[i][2]) THEN i
  ELSE FirstInvalid(arg, i + 1)

\* this.timeouts[key] = value
AssignTimeout(t, key, value) ==
  [k \in DOMAIN t \cup {key} |-> IF k = key THEN value ELSE t[k]]

\* lines 126-128: every key of the argument, in order, is written
RECURSIVE ApplyFrom(_, _, _)
ApplyFrom(t, arg, i) ==
  IF i > Len(arg) THEN t
  ELSE ApplyFrom(AssignTimeout(t, arg[i][1], arg[i][2]), arg, i + 1)

\* a store that writes only the first key of the argument
ApplyFirstOnly(t, arg) ==
  IF arg = <<>> THEN t ELSE AssignTimeout(t, arg[1][1], arg[1][2])
ApplyAll(t, arg) == ApplyFrom(t, arg, 1)

\* a single loop that writes each key as soon as it has passed validation
RECURSIVE ValidateAndApply(_, _, _)
ValidateAndApply(t, arg, i) ==
  IF i > Len(arg) THEN [threw |-> FALSE, timeouts |-> t]
  ELSE IF ~validateTimeouts(arg[i][1], arg[i][2])
       THEN [threw |-> TRUE, timeouts |-> t]
  ELSE ValidateAndApply(AssignTimeout(t, arg[i][1], arg[i][2]), arg, i + 1)
setTimeoutsOneLoop(t, arg) == ValidateAndApply(t, arg, 1)

\* Session.setTimeouts on the store t: whether it threw InvalidArgument, and
\* the store it leaves
setTimeouts(t, arg) ==
  IF FirstInvalid(arg, 1) # 0
  THEN [threw |-> TRUE, timeouts |-> t]
  ELSE [threw |-> FALSE, timeouts |-> ApplyAll(t, arg)]

\* Session.getTimeouts on the store t: the value returned, and the store it
\* leaves
getTimeouts(t) == [ret |-> t, timeouts |-> t]

SetTimeouts(arg) ==
  /\ LET r == setTimeouts(timeouts, arg)
     IN /\ timeouts' = r.timeouts
        /\ call' = [call EXCEPT
                      !.op = "setTimeouts", !.arg = arg, !.threw = r.threw,
                      !.pre = timeouts, !.fresh = FALSE, !.ret = Undefined,
                      !.repeat = (call.op = "setTimeouts" /\ ~call.threw
                                  /\ call.arg = arg)]
  /\ UNCHANGED <<id, browser, requestQueue, submitted, pc, response,
                 startOrder, doneOrder, caps, loc,
                 nav, dom, ret, conf, pageLoadStrategy>>

GetTimeouts ==
  /\ LET r == getTimeouts(timeouts)
     IN /\ timeouts' = r.timeouts
        /\ call' = [call EXCEPT
                      !.op = "getTimeouts", !.ret = r.ret,
                      !.fresh = (call.op = "setTimeouts")]
  /\ UNCHANGED <<id, browser, requestQueue, submitted, pc, response,
                 startOrder, doneOrder, caps, loc,
                 nav, dom, ret, conf, pageLoadStrategy>>

InitTimeouts == InitQueue

NextTimeouts ==
  \/ \E arg \in TimeoutArgs : SetTimeouts(arg)
  \/ GetTimeouts

SpecTimeouts == InitTimeouts /\ [][NextTimeouts]_vars

(***************************************************************************)
(* Claims about the timeouts store                                         *)
(***************************************************************************)
\* the argument of the last setTimeouts has a field that is not an integer
\* in [0, 2^53 - 1]
HasInvalidField(arg) ==
  \E i \in 1..Len(arg) : ~(arg[i][2].k = "int" /\ arg[i][2].n >= 0)

\* the prior state s with exactly the fields present in t overwritten
Overlay(s, t) ==
  [k \in TimeoutKeys |-> IF HasKey(t, k) THEN Get(t, k) ELSE s[k]]

\* C6: when any field of the argument of setTimeouts is invalid, the call
\* raises InvalidArgument and script, pageLoad and implicit keep the values
\* they had before the call, whatever the order of the fields.
C6_AllOrNothing ==
  (call.op = "setTimeouts" /\ HasInvalidField(call.arg)) =>
    (call.threw /\ timeouts = call.pre)

\* C6 witness: a call that failed although a valid field, which would have
\* changed the store, came before the invalid one in the argument.
C6_Witness ==
  /\ call.op = "setTimeouts" /\ call.threw
  /\ Len(call.arg) >= 2
  /\ validateTimeouts(call.arg[1][1], call.arg[1][2])
  /\ call.arg[1][2] # call.pre[call.arg[1][1]]
  /\ HasInvalidField(call.arg)

\* C7: after setTimeouts(t) with a valid partial t, the store (and what
\* getTimeouts returns right after) is the prior state with exactly the fields
\* of t overwritten; a second identical setTimeouts(t) changes nothing; and
\* getTimeouts returns the store and changes nothing.
C7_RoundTrip ==
  /\ (call.op = "setTimeouts" /\ ~call.threw) =>
       timeouts = Overlay(call.pre, call.arg)
  /\ (call.op = "setTimeouts" /\ ~call.threw /\ call.repeat) =>
       timeouts = call.pre
  /\ call.op = "getTimeouts" => call.ret = timeouts
  /\ call.op = "getTimeouts" =>
       timeouts = IF call.threw THEN call.pre ELSE Overlay(call.pre, call.arg)
  /\ (call.op = "getTimeouts" /\ call.fresh /\ ~call.threw) =>
       call.ret = Overlay(call.pre, call.arg)

\* C7 witness: getTimeouts right after a successful setTimeouts of some but not
\* all fields, on a store that was no longer the constructor's, which changed.
C7_Witness ==
  /\ call.op = "getTimeouts" /\ call.fresh /\ ~call.threw
  /\ Len(call.arg) \in {1, 2}
  /\ call.pre # ConstructorTimeouts
  /\ call.ret # call.pre

(***************************************************************************)
(* Capability negotiation: Session.mergeCapabilities, matchCapabilities,   *)
(* processCapabilities                                                     *)
(***************************************************************************)
\* os.platform() of the host the server runs on
OsPlatform == StrV("linux")

\* Capabilities a client may put in alwaysMatch or in a firstMatch entry
CapPairs ==
  {<<"browserName", StrV("pluma")>>, <<"browserName", StrV("not-pluma")>>,
   <<"browserName", IntV(1)>>,
   <<"platformName", OsPlatform>>, <<"platformName", StrV("win32")>>,
   <<"browserVersion", StrV("v1.0")>>,
   <<"setWindowRect", BoolV(TRUE)>>}
CapKeys == {pair[1] : pair \in CapPairs}
CapObjects == ObjectsFrom(CapPairs, MaxCapKeys)

\* line 199: the keys looked up in alwaysMatch, in this order
defaultCapabilities ==
  <<"acceptInsecureCerts", "browserName", "browserVersion", "platformName",
    "pageLoadStrategy", "proxy", "timeouts", "unhandledPromptBehaviour">>

\* the page load strategies of the protocol
PageLoadStrategies == {StrV("normal"), StrV("eager"), StrV("none")}

\* CapabilityValidator.validate(value, key): the names and the version are
\* strings, the flags are booleans, pageLoadStrategy is one of the three,
\* timeouts is an object whose fields all pass validateTimeouts, a key with
\* no rule is carried through
validate(value, key) ==
  CASE key \in {"browserName", "browserVersion", "platformName"} -> value.k = "str"
    [] key \in {"acceptInsecureCerts", "setWindowRect"} -> value.k = "bool"
    [] key = "pageLoadStrategy" -> value \in PageLoadStrategies
    [] key = "timeouts" -> value.k = "obj" /\ FirstInvalid(value.s, 1) = 0
    [] OTHER -> TRUE

\* what JavaScript takes for true in a condition
Truthy(v) ==
  CASE v.k = "bool" -> v.n = 1
    [] v.k = "int" -> v.n # 0
    [] v.k = "str" -> v.s # ""
    [] v.k = "obj" -> TRUE
    [] OTHER -> FALSE

\* lines 286-291: the properties of secondary from the i-th on; a property
\* primary owns as well throws InvalidArgument
RECURSIVE MergeFrom(_, _, _, _)
MergeFrom(primary, secondary, result, i) ==
  IF i > Len(secondary) THEN [threw |-> FALSE, result |-> result]
  ELSE IF HasKey(primary, secondary[i][1])
       THEN [threw |-> TRUE, result |-> result]
  ELSE MergeFrom(primary, secondary,
                 Assign(result, secondary[i][1], secondary[i][2]), i + 1)

\* a merge without the ownership test: the secondary value overrides
RECURSIVE OverrideFrom(_, _, _)
OverrideFrom(secondary, result, i) ==
  IF i > Len(secondary) THEN [threw |-> FALSE, result |-> result]
  ELSE OverrideFrom(secondary,
                    Assign(result, secondary[i][1], secondary[i][2]), i + 1)
mergeOverriding(primary, secondary) == OverrideFrom(secondary, primary, 1)

\* Session.mergeCapabilities(primary, secondary), lines 278-294: result starts
\* as a copy of primary, key by key (lines 279-282). secondary is always an
\* object here (line 265 passes a validated firstMatch entry).
mergeCapabilities(primary, secondary) == MergeFrom(primary, secondary, primary, 1)

\* line 297-303: the capabilities of the implementation
matchedDefaults ==
  <<<<"browserName", StrV("pluma")>>, <<"browserVersion", StrV("v1.0")>>,
    <<"platformName", OsPlatform>>, <<"acceptInsecureCerts", BoolV(FALSE)>>,
    <<"setWindowRect", BoolV(FALSE)>>>>

\* lines 307-325: the properties of the merged entry from the i-th on.
\* flag stays false once a name or version differs; a truthy setWindowRect
\* throws InvalidArgument; a property is copied while flag is true.
RECURSIVE MatchFrom(_, _, _, _)
MatchFrom(c, matched, flag, i) ==
  IF i > Len(c) THEN [threw |-> FALSE, flag |-> flag, matched |-> matched]
  ELSE LET property == c[i][1]
           value == c[i][2]
           flag2 ==
             IF property \in {"browserName", "platformName", "browserVersion"}
                /\ value # Get(matchedDefaults, property)
             THEN FALSE ELSE flag
       IN IF property = "setWindowRect" /\ Truthy(value)
          THEN [threw |-> TRUE, flag |-> flag, matched |-> matched]
          ELSE MatchFrom(c, IF flag2 THEN Assign(matched, property, value)
                            ELSE matched, flag2, i + 1)

\* Session.matchCapabilities(capabilties), lines 296-330: threw InvalidArgument,
\* or returned null (flag false), or returned matchedCapabilities
matchCapabilities(c) == MatchFrom(c, matchedDefaults, TRUE, 1)

\* lines 222-233: requiredCapabilities, or InvalidArgument on the first
\* defaultCapabilities key of alwaysMatch that fails validation. Keys of
\* alwaysMatch outside defaultCapabilities are not looked at.
RECURSIVE ValidateAlways(_, _, _)
ValidateAlways(always, required, i) ==
  IF i > Len(defaultCapabilities) THEN [threw |-> FALSE, result |-> required]
  ELSE LET key == defaultCapabilities[i]
       IN IF ~HasKey(always, key) THEN ValidateAlways(always, required, i + 1)
          ELSE IF validate(Get(always, key), key)
               THEN ValidateAlways(always,
                                   Assign(required, key, Get(always, key)), i + 1)
          ELSE [threw |-> TRUE, result |-> required]

\* lines 250-257: a firstMatch entry keeps the keys that pass validation
RECURSIVE ValidateEntry(_, _, _)
ValidateEntry(entry, validated, i) ==
  IF i > Len(entry) THEN validated
  ELSE ValidateEntry(entry,
                     IF validate(entry[i][2], entry[i][1])
                     THEN Assign(validated, entry[i][1], entry[i][2])
                     ELSE validated,
                     i + 1)

\* lines 264-267: the entries merged in order; the first merge that throws
\* ends the negotiation
RECURSIVE MergeAll(_, _, _, _)
MergeAll(required, entries, merged, i) ==
  IF i > Len(entries) THEN [threw |-> FALSE, result |-> merged]
  ELSE LET m == mergeCapabilities(required, entries[i])
       IN IF m.threw THEN [threw |-> TRUE, result |-> merged]
          ELSE MergeAll(required, entries, Append(merged, m.result), i + 1)

Outcome(error, value, merged) ==
  [error |-> error, value |-> value, merged |-> merged]

\* lines 269-275: every merged entry is matched in order; one that returns
\* null throws SessionNotCreated; the value is the last entry's match
RECURSIVE MatchAll(_, _, _)
MatchAll(merged, last, i) ==
  IF i > Len(merged) THEN Outcome("none", last, merged)
  ELSE LET m == matchCapabilities(merged[i])
       IN IF m.threw THEN Outcome("InvalidArgument", <<>>, merged)
          ELSE IF ~m.flag THEN Outcome("SessionNotCreated", <<>>, merged)
          ELSE MatchAll(merged, m.matched, i + 1)

\* A request body: whether it has `capabilities`, and in it alwaysMatch and
\* firstMatch, each present or not.
CapRequest(present, hasAlways, always, hasFirst, first) ==
  [present |-> present, hasAlways |-> hasAlways, always |-> always,
   hasFirst |-> hasFirst, first |-> first]

\* Session.processCapabilities(request), lines 195-276
processCapabilities(request) ==
  IF \/ ~request.present
     \/ (~request.hasAlways /\ ~request.hasFirst)
  THEN Outcome("InvalidArgument", <<>>, <<>>)
  ELSE
    LET required == IF request.hasAlways
                    THEN ValidateAlways(request.always, <<>>, 1)
                    ELSE [threw |-> FALSE, result |-> <<>>]
        all == IF request.hasFirst THEN request.first ELSE << <<>> >>
        validated == [i \in 1..Len(all) |-> ValidateEntry(all[i], <<>>, 1)]
        merging == MergeAll(required.result, validated, <<>>, 1)
    IN IF required.threw THEN Outcome("InvalidArgument", <<>>, <<>>)
       ELSE IF request.hasFirst /\ request.first = <<>>
            THEN Outcome("InvalidArgument", <<>>, <<>>)
       ELSE IF merging.threw THEN Outcome("InvalidArgument", <<>>, <<>>)
       ELSE MatchAll(merging.result, <<>>, 1)

\* The request bodies hold their capabilities in one key order: the order
\* decides only which of several InvalidArgument errors is thrown first.
\* (mergeCapabilities is checked over every key order under SpecMerge.)
KeyOrder == <<"browserName", "browserVersion", "platformName", "setWindowRect">>
KeyRank(key) == CHOOSE k \in 1..Len(KeyOrder) : KeyOrder[k] = key
InKeyOrder(obj) ==
  \A i \in 1..Len(obj) : \A j \in 1..Len(obj) :
    i < j => KeyRank(obj[i][1]) < KeyRank(obj[j][1])
RequestObjects == {x \in CapObjects : InKeyOrder(x)}

\* the number of properties the objects of a list hold in all
RECURSIVE Properties(_)
Properties(list) ==
  IF list = <<>> THEN 0 ELSE Len(Head(list)) + Properties(Tail(list))

\* sequences of at most len objects that hold at most n properties in all
RECURSIVE EntryLists(_, _)
EntryLists(len, n) ==
  IF len = 0 THEN {<<>>}
  ELSE LET shorter == EntryLists(len - 1, n)
           longer == {Append(list, o) : list \in shorter, o \in RequestObjects}
       IN shorter \cup {list \in longer : Properties(list) <= n}

\* the request bodies explored: at most MaxFirstMatch firstMatch entries and
\* at most MaxCapKeys capabilities in the whole request
CapRequests ==
  LET lists == EntryLists(MaxFirstMatch, MaxCapKeys)
      both == {p \in RequestObjects \X lists :
                 Len(p[1]) + Properties(p[2]) <= MaxCapKeys}
  IN {CapRequest(FALSE, FALSE, <<>>, FALSE, <<>>),
      CapRequest(TRUE, FALSE, <<>>, FALSE, <<>>)}
     \cup {CapRequest(TRUE, TRUE, p[1], TRUE, p[2]) : p \in both}
     \cup {CapRequest(TRUE, TRUE, a, FALSE, <<>>) : a \in RequestObjects}
     \cup {CapRequest(TRUE, FALSE, <<>>, TRUE, f) : f \in lists}

\* Specification of mergeCapabilities alone: any two objects
InitMerge ==
  /\ Constructor
  /\ NothingCalled
  /\ call = NoCall
  /\ loc = NoLoc
  /\ \E primary \in CapObjects : \E secondary \in CapObjects :
       caps = [op |-> "merge", primary |-> primary, secondary |-> secondary,
               threw |-> FALSE, result |-> <<>>]

MergeCapabilities ==
  /\ caps.op = "merge"
  /\ LET m == mergeCapabilities(caps.primary, caps.secondary)
     IN caps' = [caps EXCEPT !.op = "merged", !.threw = m.threw,
                             !.result = IF m.threw THEN <<>> ELSE m.result]
  /\ UNCHANGED <<id, timeouts, browser, requestQueue, submitted, pc, response,
                 startOrder, doneOrder, call, loc,
                 nav, dom, ret, conf, pageLoadStrategy>>

NextMerge == MergeCapabilities

SpecMerge == InitMerge /\ [][NextMerge]_vars

\* Specification of the negotiation: any request body
InitCaps ==
  /\ Constructor
  /\ NothingCalled
  /\ call = NoCall
  /\ loc = NoLoc
  /\ \E request \in CapRequests :
       caps = [op |-> "request", request |-> request,
               out |-> Outcome("none", <<>>, <<>>)]

ProcessCapabilities ==
  /\ caps.op = "request"
  /\ caps' = [caps EXCEPT !.op = "processed",
                          !.out = processCapabilities(caps.request)]
  /\ UNCHANGED <<id, timeouts, browser, requestQueue, submitted, pc, response,
                 startOrder, doneOrder, call, loc,
                 nav, dom, ret, conf, pageLoadStrategy>>

NextCaps == ProcessCapabilities

SpecCaps == InitCaps /\ [][NextCaps]_vars

(***************************************************************************)
(* Claims about capability negotiation                                     *)
(***************************************************************************)
\* C8: mergeCapabilities of two maps with disjoint key sets returns exactly
\* the union of the two maps, whatever the order of the keys in either; when
\* a key occurs in both it throws InvalidArgument.
C8_MergeIsUnion ==
  caps.op = "merged" =>
    IF Keys(caps.primary) \cap Keys(caps.secondary) = {}
    THEN /\ ~caps.threw
         /\ IsObject(caps.result)
         /\ AsMap(caps.result) = AsMap(caps.primary) \cup AsMap(caps.secondary)
    ELSE caps.threw

\* C8 witness: a merge of two non-empty maps with disjoint keys, the secondary
\* one of two keys, has returned.
C8_Witness ==
  /\ caps.op = "merged" /\ ~caps.threw
  /\ Len(caps.primary) >= 1 /\ Len(caps.secondary) >= 2
  /\ Len(caps.result) = Len(caps.primary) + Len(caps.secondary)

\* a merged entry matches the implementation: browserName, platformName and
\* browserVersion, when present, equal the implementation's values
EntryMatches(entry) ==
  \A key \in {"browserName", "platformName", "browserVersion"} :
    HasKey(entry, key) => Get(entry, key) = Get(matchedDefaults, key)

\* C9: a negotiation that got as far as matching its merged entries (and met
\* no unsupported setWindowRect) fails with SessionNotCreated if and only if
\* no merged entry matches the implementation.
C9_FailsIffNoneMatches ==
  (caps.op = "processed" /\ caps.out.merged # <<>>
     /\ caps.out.error # "InvalidArgument") =>
    (caps.out.error = "SessionNotCreated"
       <=> \A i \in 1..Len(caps.out.merged) : ~EntryMatches(caps.out.merged[i]))

\* the object holds a key that fails its validator
HasInvalidKey(obj) ==
  \E i \in 1..Len(obj) : ~validate(obj[i][2], obj[i][1])

\* C19: a request with a key that fails its validator, in alwaysMatch or in
\* an entry of firstMatch, fails the negotiation.
C19_InvalidKeyFailsNegotiation ==
  (caps.op = "processed" /\ caps.request.present)
  => ((\/ caps.request.hasAlways /\ HasInvalidKey(caps.request.always)
       \/ /\ caps.request.hasFirst
          /\ \E i \in 1..Len(caps.request.first) :
               HasInvalidKey(caps.request.first[i]))
      => caps.out.error # "none")

(***************************************************************************)
(* Element location: Session.elementRetrieval                              *)
(***************************************************************************)
\* the strategies the switch at line 362 has a case for
LocationStrategies ==
  {"css selector", "link text", "partial link text", "tag name", "xpath"}
\* the strategy strings a caller may pass
StrategyInputs == LocationStrategies \cup {"bogus"}
\* the elements that may come to match the selector under startNode
Elements == 1..MaxElements

\* A Date: a number of milliseconds, or Invalid Date
DateAt(ms) == [valid |-> TRUE, ms |-> ms]
InvalidDate == [valid |-> FALSE, ms |-> 0]
\* a > b on Dates compares their numbers; Invalid Date is NaN, and every
\* comparison with NaN is false
Later(a, b) == a.valid /\ b.valid /\ a.ms > b.ms

\* line 333: new Date(new Date().getTime + this.timeouts.implicit).
\* `getTime` is not called: a function plus a number is the concatenation of
\* their texts, a string no Date can be parsed from, so endTime is Invalid
\* Date whatever the clock and the timeout are.
endTime(now, implicit) == InvalidDate

\* the elements in document order
RECURSIVE InOrder(_)
InOrder(set) ==
  IF set = {} THEN <<>>
  ELSE LET e == CHOOSE x \in set : \A y \in set : x <= y
       IN <<e>> \o InOrder(set \ {e})

\* lines 362-380: one run of the strategy on the document. cssSelector and
\* tagName return the engine's matches; linkTextSelector collects its matches
\* in strategyResult and returns `result`, the empty array of line 335; the
\* xpath case assigns nothing; any other string throws InvalidArgument.
StrategyResult(strategy, doc) ==
  CASE strategy \in {"css selector", "tag name"} ->
         [threw |-> FALSE, defined |-> TRUE, elements |-> InOrder(doc)]
    [] strategy \in {"link text", "partial link text"} ->
         [threw |-> FALSE, defined |-> TRUE, elements |-> <<>>]
    [] strategy = "xpath" ->
         [threw |-> FALSE, defined |-> FALSE, elements |-> <<>>]
    [] OTHER -> [threw |-> TRUE, defined |-> FALSE, elements |-> <<>>]

\* lines 390-394: a new WebElement, with a handle of its own, for every
\* element found
RECURSIVE Register(_, _)
Register(known, elements) ==
  IF elements = <<>> THEN known
  ELSE Register(Append(known, [element |-> Head(elements),
                               handle |-> Len(known) + 1]),
                Tail(elements))

\* lines 332-335: the call starts; endTime is computed once
Locate(strategy) ==
  /\ loc.pc # "loop"
  /\ loc.calls < MaxLocates
  /\ loc' = [loc EXCEPT !.pc = "loop", !.calls = @ + 1, !.strategy = strategy,
                         !.start = loc.now, !.implicit = timeouts.implicit.n,
                         !.attempts = 0, !.elements = <<>>, !.result = <<>>,
                         !.error = "none"]
  /\ UNCHANGED <<id, timeouts, browser, requestQueue, submitted, pc, response,
                 startOrder, doneOrder, call, caps,
                 nav, dom, ret, conf, pageLoadStrategy>>

\* lines 360-396: one turn of the do-while loop, and what follows it when
\* the loop ends. An InvalidArgument thrown inside the try is caught at line
\* 381, where evaluating `XPathException` (never defined) throws a
\* ReferenceError. When the condition of line 388 is false the loop ends:
\* `elements` left undefined by xpath makes elements.forEach a TypeError,
\* otherwise the elements are registered and returned.
Attempt ==
  /\ loc.pc = "loop"
  /\ LET r == StrategyResult(loc.strategy, loc.doc)
         again == /\ Later(endTime(loc.start, loc.implicit), DateAt(loc.now))
                  /\ Len(r.elements) < 1
         known == Register(browser.knownElements, r.elements)
     IN IF r.threw
        THEN /\ loc' = [loc EXCEPT !.pc = "threw", !.attempts = @ + 1,
                                    !.error = "ReferenceError"]
             /\ UNCHANGED browser
        ELSE IF again
        THEN /\ loc' = [loc EXCEPT !.attempts = @ + 1, !.elements = r.elements]
             /\ UNCHANGED browser
        ELSE IF ~r.defined
        THEN /\ loc' = [loc EXCEPT !.pc = "threw", !.attempts = @ + 1,
                                    !.error = "TypeError"]
             /\ UNCHANGED browser
        ELSE /\ loc' = [loc EXCEPT
                          !.pc = "returned", !.attempts = @ + 1,
                          !.elements = r.elements,
                          !.result = SubSeq(known,
                                            Len(browser.knownElements) + 1,
                                            Len(known))]
             /\ browser' = [browser EXCEPT !.knownElements = known]
  /\ UNCHANGED <<id, timeouts, requestQueue, submitted, pc, response,
                 startOrder, doneOrder, call, caps,
                 nav, dom, ret, conf, pageLoadStrategy>>

\* a millisecond passes
Tick ==
  /\ loc.now < MaxClock
  /\ loc' = [loc EXCEPT !.now = @ + 1]
  /\ UNCHANGED <<id, timeouts, browser, requestQueue, submitted, pc, response,
                 startOrder, doneOrder, call, caps,
                 nav, dom, ret, conf, pageLoadStrategy>>

\* the page adds an element that matches the selector
ElementAppears(e) ==
  /\ e \notin loc.doc
  /\ loc' = [loc EXCEPT !.doc = @ \cup {e}]
  /\ UNCHANGED <<id, timeouts, browser, requestQueue, submitted, pc, response,
                 startOrder, doneOrder, call, caps,
                 nav, dom, ret, conf, pageLoadStrategy>>

\* a session whose implicit timeout has been set
InitLocate ==
  /\ id = 0
  /\ NothingCalled
  /\ \E i \in 0..MaxImplicit :
       timeouts = [ConstructorTimeouts EXCEPT !.implicit = IntV(i)]
  /\ browser = NewBrowser
  /\ QueueInit
  /\ call = NoCall
  /\ caps = NoCaps
  /\ loc = NoLoc

NextLocate ==
  \/ \E strategy \in StrategyInputs : Locate(strategy)
  \/ Attempt
  \/ Tick
  \/ \E e \in Elements : ElementAppears(e)

SpecLocate == InitLocate /\ [][NextLocate]_vars

(***************************************************************************)
(* Claims about element location                                           *)
(***************************************************************************)
\* C10: a locate with a strategy that runs (css selector, tag name, link
\* text, partial link text) that returns an empty sequence has not returned
\* before its deadline, the time of the call plus the implicit timeout read
\* at the call; and one that found elements returns them.
C10_WaitsUntilDeadline ==
  (loc.pc = "returned" /\ loc.strategy \in LocationStrategies) =>
    /\ loc.result = <<>> => loc.now >= loc.start + loc.implicit
    /\ loc.result # <<>> =>
         [i \in 1..Len(loc.result) |-> loc.result[i].element] = loc.elements

(***************************************************************************)
(* Navigation: Session.navigateTo and its pageLoad timer                   *)
(***************************************************************************)
MaxPageLoad == 2
MaxNavigations == 2

\* the urls a client may ask for; validator.isURL accepts the first two
Urls == {"http://a/", "http://b/"}
UrlInputs == Urls \cup {"not a url"}
isURL(url) == url \in Urls

\* line 100: an invalid url throws InvalidArgument before anything is started.
\* lines 108-113: a timer is started only when the document is not at url
\* already; then the call awaits browser.navigateToURL(url).
NavigateTo(url) ==
  /\ nav.pc \in {"idle", "returned", "threw"}
  /\ nav.calls < MaxNavigations
  /\ nav.timer # "pending"
  /\ IF ~isURL(url)
     THEN nav' = [nav EXCEPT !.pc = "threw", !.url = url, !.timer = "none",
                             !.elapsed = 0, !.error = "InvalidArgument",
                             !.calls = @ + 1]
     ELSE nav' = [nav EXCEPT !.pc = "navigating", !.url = url,
                             !.timer = IF dom.url # url THEN "pending"
                                       ELSE "none",
                             !.elapsed = 0, !.error = "none", !.calls = @ + 1]
  /\ UNCHANGED <<id, timeouts, browser, requestQueue, submitted, pc, response,
                 startOrder, doneOrder, call, caps, loc, dom, ret, conf, pageLoadStrategy>>

\* time passes while a timer is pending
NavTick ==
  /\ nav.timer = "pending"
  /\ nav.elapsed < MaxPageLoad
  /\ nav' = [nav EXCEPT !.elapsed = @ + 1]
  /\ UNCHANGED <<id, timeouts, browser, requestQueue, submitted, pc, response,
                 startOrder, doneOrder, call, caps, loc, dom, ret, conf, pageLoadStrategy>>

\* lines 104-106: the timer's callback runs once timeouts.pageLoad has
\* elapsed and throws Error('timeout') on the timer's own stack: no caller
\* of navigateTo catches it. Either the process ends there (no handler for
\* uncaught exceptions) or it goes on and the awaited navigation is left to
\* finish.
TimerFires(handled) ==
  /\ nav.timer = "pending"
  /\ nav.elapsed >= timeouts.pageLoad.n
  /\ nav' = [nav EXCEPT !.timer = "fired", !.uncaught = @ + 1,
                        !.pc = IF handled THEN @ ELSE "crashed"]
  /\ UNCHANGED <<id, timeouts, browser, requestQueue, submitted, pc, response,
                 startOrder, doneOrder, call, caps, loc, dom, ret, conf, pageLoadStrategy>>

\* browser.navigateToURL(url) resolves true with the document loaded, or
\* rejects with the navigation's error
navigateToURL(d, url, ok) ==
  IF ok THEN [threw |-> FALSE, value |-> TRUE, dom |-> [d EXCEPT !.url = url]]
  ELSE [threw |-> TRUE, value |-> FALSE, dom |-> d]

\* lines 110 and 112: the await returns. clearTimeout(timer) is called when a
\* timer was started and the navigation resolved true; on a timer that has
\* fired it does nothing. A rejection reaches the caller with the timer left
\* as it is.
NavigationCompletes(ok) ==
  /\ nav.pc = "navigating"
  /\ LET r == navigateToURL(dom, nav.url, ok)
     IN /\ dom' = r.dom
        /\ nav' = [nav EXCEPT
                     !.pc = IF r.threw THEN "threw" ELSE "returned",
                     !.error = IF r.threw THEN "navigation" ELSE "none",
                     !.timer = IF ~r.threw /\ r.value /\ @ = "pending"
                               THEN "cleared" ELSE @]
  /\ UNCHANGED <<id, timeouts, browser, requestQueue, submitted, pc, response,
                 startOrder, doneOrder, call, caps, loc, ret, conf, pageLoadStrategy>>

InitNav ==
  /\ id = 0
  /\ \E ms \in 0..MaxPageLoad :
       timeouts = [ConstructorTimeouts EXCEPT !.pageLoad = IntV(ms)]
  /\ browser = NewBrowser
  /\ QueueInit
  /\ call = NoCall
  /\ caps = NoCaps
  /\ loc = NoLoc
  /\ NothingCalled

NextNav ==
  \/ \E url \in UrlInputs : NavigateTo(url)
  \/ NavTick
  \/ \E handled \in BOOLEAN : TimerFires(handled)
  \/ \E ok \in BOOLEAN : NavigationCompletes(ok)

SpecNav == InitNav /\ [][NextNav]_vars

\* C11: the pageLoad timer and the navigation race with exactly one outcome.
\* When the timer has fired the caller of navigateTo has the timeout error
\* and the navigation was abandoned (the call never returns normally); a call
\* that returned normally has no timer that fired; and no timer is pending
\* once navigateTo has returned or thrown.
C11_ExactlyOneOutcome ==
  /\ nav.timer = "fired" => nav.pc = "threw" /\ nav.error = "timeout"
  /\ nav.pc = "returned" => nav.timer \in {"none", "cleared"}
  /\ nav.pc \in {"returned", "threw"} => nav.timer # "pending"

(***************************************************************************)
(* Cookies: Browser.addCookie, getCookies, getNamedCookie                  *)
(*                                                                         *)
(* A string that the code takes apart (a domain, a path, a host name) is a *)
(* sequence of characters. An optional field is <<>> when it is absent     *)
(* (undefined) and <<v>> when it holds v.                                  *)
(***************************************************************************)
MaxAdds == 1

None == <<>>
Some(v) == <<v>>
Has(field) == field # <<>>
The(field) == field[1]

\* text.replace(/^\./, '')
StripDot(text) == IF text # <<>> /\ Head(text) = "." THEN Tail(text) ELSE text
\* the characters of text from position i on
From(text, i) == SubSeq(text, i, Len(text))
\* text.includes(part)
Includes(text, part) ==
  \E i \in 1..(Len(text) + 1) :
    /\ i + Len(part) - 1 <= Len(text)
    /\ SubSeq(text, i, i + Len(part) - 1) = part
\* prefix is a string prefix of text
IsPrefix(prefix, text) ==
  Len(prefix) <= Len(text) /\ SubSeq(text, 1, Len(prefix)) = prefix
\* new RegExp(`^${pattern}`).test(text), for patterns of plain characters and
\* of '.', which stands for any one character
RECURSIVE RegExpTest(_, _)
RegExpTest(pattern, text) ==
  IF pattern = <<>> THEN TRUE
  ELSE IF text = <<>> THEN FALSE
  ELSE /\ (Head(pattern) = "." \/ Head(pattern) = Head(text))
       /\ RegExpTest(Tail(pattern), Tail(text))

\* The documents the browser may be at, and new URL(url) of each
CookieUrls == {AboutBlank, "http://a/abc", "http://ba/a", "file:///a"}
URL(url) ==
  CASE url = AboutBlank ->
         [scheme |-> "about", hostname |-> <<>>,
          pathname |-> <<"b", "l", "a", "n", "k">>]
    [] url = "http://a/abc" ->
         [scheme |-> "http", hostname |-> <<"a">>,
          pathname |-> <<"/", "a", "b", "c">>]
    [] url = "http://ba/a" ->
         [scheme |-> "http", hostname |-> <<"b", "a">>,
          pathname |-> <<"/", "a">>]
    [] url = "file:///a" ->
         [scheme |-> "file", hostname |-> <<>>, pathname |-> <<"/", "a">>]
\* Utils.extractDomainFromUrl(url)
extractDomainFromUrl(url) == URL(url).hostname
\* line 189
VALID_SCHEMES == {"http", "https", "ftp", "about"}
isValidScheme(scheme) == scheme \in VALID_SCHEMES

\* The cookies a client may send (Pluma.Cookie)
CookieNames == {<<"x">>, <<>>}
CookieDomains == {None, Some(<<".", "a">>), Some(<<"a">>)}
CookiePaths == {None, Some(<<"/", "a">>), Some(<<"/", ".">>)}
CookieFlags == {[secure |-> None, httpOnly |-> None],
                [secure |-> Some(FALSE), httpOnly |-> None],
                [secure |-> None, httpOnly |-> Some(TRUE)]}
CookieExpiries == {None, Some(0), Some(5), Some(-1)}
CookieInputs ==
  {[name |-> Some(n), value |-> Some(<<"v">>), domain |-> d, path |-> p,
    secure |-> f.secure, httpOnly |-> f.httpOnly, expiry |-> e] :
     n \in CookieNames, d \in CookieDomains, p \in CookiePaths,
     f \in CookieFlags, e \in CookieExpiries}

\* lines 178-180: the domain is set, not empty, and starts with a dot
isCookieDomainDotPrefixed(cookie) ==
  Has(cookie.domain) /\ The(cookie.domain) # <<>>
  /\ Head(The(cookie.domain)) = "."
\* the copy that keeps the dot
cloneCookieKeepingDot(cookie) == cookie
\* lines 166-173: a copy of the cookie with the dot removed from the domain
cloneCookieWithoutDomainDotPrefix(cookie) ==
  [cookie EXCEPT !.domain = Some(StripDot(The(cookie.domain)))]
\* lines 209-211
shallowClonedCookie(cookie) ==
  IF isCookieDomainDotPrefixed(cookie)
  THEN cloneCookieWithoutDomainDotPrefix(cookie)
  ELSE cookie

\* CookieValidator, lines 332-371. Number.MAX_SAFE_INTEGER is beyond every
\* expiry sent here.
isValidName(name) == Has(name) /\ The(name) # <<>>
isValidValue(value) == Has(value)
isValidSecure(secure) == secure = None \/ The(secure) \in BOOLEAN
isValidHttpOnly(httpOnly) == httpOnly = None \/ The(httpOnly) \in BOOLEAN
isValidExpiry(expiry) == expiry = None \/ The(expiry) >= 0
isValidCookie(cookie) ==
  IF ~isValidName(cookie.name) \/ ~isValidValue(cookie.value) THEN FALSE
  ELSE /\ isValidHttpOnly(cookie.httpOnly)
       /\ isValidSecure(cookie.secure)
       /\ isValidExpiry(cookie.expiry)

\* lines 148-161: the defaults under the fields the cookie holds
Default(field, value) == IF Has(field) THEN field ELSE Some(value)
createCookieJarOptions(cookie, activeDomain) ==
  [cookie EXCEPT !.domain = Default(@, activeDomain),
                 !.path = Default(@, <<"/">>),
                 !.secure = Default(@, FALSE),
                 !.httpOnly = Default(@, FALSE)]

\* The Cookie of the jar (tough-cookie): the constructor takes the
\* properties it knows from its options and leaves the others out; expires
\* is None while it is the default "Infinity"
Cookie(options) ==
  [key |-> options.key, value |-> options.value, domain |-> options.domain,
   path |-> options.path, secure |-> options.secure,
   httpOnly |-> options.httpOnly, expires |-> options.expires,
   creation |-> Some("now")]

\* lines 217-229: name becomes key; `...(expires ? [new Date(expires)] : [])`
\* spreads an array into the object literal, which gives the options a
\* property "0" that holds the Date, and no property expires
CookieOptions(filled) ==
  [key |-> The(filled.name),
   zero |-> IF Has(filled.expiry) /\ The(filled.expiry) # 0
            THEN filled.expiry ELSE None,
   expires |-> None,
   value |-> The(filled.value), domain |-> The(filled.domain),
   path |-> The(filled.path), secure |-> The(filled.secure),
   httpOnly |-> The(filled.httpOnly)]

\* store.putCookie(cookie) of the memory store: one cookie for each
\* (domain, path, key); serialize lists cookies in the order of creation
SameCookie(a, b) == a.domain = b.domain /\ a.path = b.path /\ a.key = b.key
putCookie(jar, cookie) ==
  LET Other(c) == ~SameCookie(c, cookie)
  IN Append(SelectSeq(jar, Other), cookie)

\* Browser.addCookie, lines 196-236, on the dom d: the error thrown, the dom
\* it leaves and the caller's cookie object after the call
addCookie(d, cookie) ==
  LET activeDomain == extractDomainFromUrl(d.url)
      scheme == URL(d.url).scheme
      clone == shallowClonedCookie(cookie)
      filled == createCookieJarOptions(clone, activeDomain)
  IN IF ~isValidScheme(scheme)
     THEN [error |-> "InvalidArgument", dom |-> d, cookie |-> cookie]
     ELSE IF ~isValidCookie(clone)
     THEN [error |-> "InvalidArgument", dom |-> d, cookie |-> cookie]
     ELSE [error |-> "none",
           dom |-> [d EXCEPT
                      !.jar = putCookie(@, Cookie(CookieOptions(filled)))],
           cookie |-> cookie]

\* A number of the response: NaN or n
Num(n) == [nan |-> FALSE, n |-> n]
NaN == [nan |-> TRUE, n |-> 0]

\* cookie.toJSON() in cookieJar.serialize (tough-cookie): a property that
\* holds its default (key '', value '', expires "Infinity", secure false,
\* httpOnly false) is left out, a Date becomes its ISO string (here: the
\* number it was made from)
toJSON(cookie) ==
  [key |-> IF cookie.key = <<>> THEN None ELSE Some(cookie.key),
   value |-> IF cookie.value = <<>> THEN None ELSE Some(cookie.value),
   expires |-> cookie.expires,
   domain |-> Some(cookie.domain), path |-> Some(cookie.path),
   secure |-> IF cookie.secure THEN Some(TRUE) ELSE None,
   httpOnly |-> IF cookie.httpOnly THEN Some(TRUE) ELSE None,
   creation |-> cookie.creation]

\* lines 247-259: key is renamed name; for expires, expiry is
\* new Date(currentCookie['expires']).getTime(), and currentCookie has no
\* expires: the Date is invalid and its time NaN; creation is deleted
currentCookie(serialized) ==
  [name |-> IF Has(serialized.key) THEN The(serialized.key) ELSE <<>>,
   value |-> IF Has(serialized.value) THEN The(serialized.value) ELSE <<>>,
   domain |-> serialized.domain, path |-> serialized.path,
   secure |-> serialized.secure, httpOnly |-> serialized.httpOnly,
   expiry |-> IF Has(serialized.expires) THEN Some(NaN) ELSE None,
   expires |-> None, creation |-> None]

\* Browser.getCookies, lines 241-264
getCookies(d) == [i \in 1..Len(d.jar) |-> currentCookie(toJSON(d.jar[i]))]

\* lines 270-273
isAssociatedCookie(d, cookie) ==
  /\ RegExpTest(The(cookie.path), URL(d.url).pathname)
  /\ Includes(URL(d.url).hostname, The(cookie.domain))

\* Browser.getNamedCookie, lines 278-286: the first cookie of getCookies()
\* with the name that is associated, or NoSuchCookie
getNamedCookie(d, requestedName) ==
  LET cookies == getCookies(d)
      Found(i) == /\ cookies[i].name = requestedName
                  /\ isAssociatedCookie(d, cookies[i])
      hits == {i \in 1..Len(cookies) : Found(i)}
  IN IF hits = {} THEN [error |-> "NoSuchCookie", value |-> None]
     ELSE [error |-> "none",
           value |-> Some(cookies[CHOOSE i \in hits : \A j \in hits : i <= j])]

\* a cookie a response has set while the browser navigated: it expires
ServerCookie ==
  [key |-> <<"x">>, value |-> <<"s">>, domain |-> <<"a">>, path |-> <<"/">>,
   secure |-> FALSE, httpOnly |-> FALSE, expires |-> Some(7),
   creation |-> Some("then")]
RequestedNames == {<<"x">>, <<"m">>}

AddCookie(cookie) ==
  /\ ret.calls < MaxAdds
  /\ LET r == addCookie(dom, cookie)
     IN /\ dom' = r.dom
        /\ ret' = [ret EXCEPT
                     !.op = "addCookie", !.calls = @ + 1, !.arg = cookie,
                     !.error = r.error, !.value = None, !.pre = dom,
                     !.after = r.cookie,
                     !.clone = shallowClonedCookie(cookie),
                     !.added = IF r.error = "none" THEN Some(cookie) ELSE None]
  /\ UNCHANGED <<id, timeouts, browser, requestQueue, submitted, pc, response,
                 startOrder, doneOrder, call, caps, loc, nav, conf, pageLoadStrategy>>

GetCookies ==
  /\ ret' = [ret EXCEPT !.op = "getCookies", !.arg = None, !.error = "none",
                        !.value = getCookies(dom), !.pre = dom]
  /\ UNCHANGED <<id, timeouts, browser, requestQueue, submitted, pc, response,
                 startOrder, doneOrder, call, caps, loc, nav, dom, conf, pageLoadStrategy>>

GetNamedCookie(requestedName) ==
  /\ LET r == getNamedCookie(dom, requestedName)
     IN ret' = [ret EXCEPT !.op = "getNamedCookie", !.arg = requestedName,
                           !.error = r.error, !.value = r.value, !.pre = dom]
  /\ UNCHANGED <<id, timeouts, browser, requestQueue, submitted, pc, response,
                 startOrder, doneOrder, call, caps, loc, nav, dom, conf, pageLoadStrategy>>

InitCookies ==
  /\ Constructor
  /\ call = NoCall
  /\ caps = NoCaps
  /\ loc = NoLoc
  /\ nav = NoNav
  /\ ret = NoRet
  /\ conf = NoConf
  /\ pageLoadStrategy = StrV("normal")
  /\ \E url \in CookieUrls : \E jar \in {<<>>, <<ServerCookie>>} :
       dom = [url |-> url, jar |-> jar]

NextCookies ==
  \/ \E cookie \in CookieInputs : AddCookie(cookie)
  \/ GetCookies
  \/ \E requestedName \in RequestedNames : GetNamedCookie(requestedName)

SpecCookies == InitCookies /\ [][NextCookies]_vars

(***************************************************************************)
(* Claims about the cookies                                                *)
(***************************************************************************)
\* the last addCookie that succeeded had this cookie
Added == The(ret.added)
OtherFields(cookie) ==
  <<cookie.name, cookie.value, cookie.path, cookie.secure, cookie.httpOnly,
    cookie.expiry>>

\* C12: after addCookie of a valid cookie whose domain starts with a dot,
\* getCookies() returns a cookie with the name, the value (and the path, when
\* one was given) of the cookie and with its domain less the dot; addCookie
\* leaves the caller's object as it was, and the copy it validates and stores
\* differs from it in the domain alone.
C12_DotStripped ==
  /\ (ret.op = "getCookies" /\ Has(ret.added)
      /\ isCookieDomainDotPrefixed(Added))
     => \E i \in 1..Len(ret.value) :
          /\ ret.value[i].name = The(Added.name)
          /\ ret.value[i].value = The(Added.value)
          /\ ret.value[i].domain = Some(StripDot(The(Added.domain)))
          /\ Has(Added.path) => ret.value[i].path = Added.path
  /\ ret.op = "addCookie"
     => /\ ret.after = ret.arg
        /\ OtherFields(ret.clone) = OtherFields(ret.arg)
        /\ isCookieDomainDotPrefixed(ret.arg)
           => ret.clone.domain = Some(Tail(The(ret.arg.domain)))
C12_Witness ==
  /\ ret.op = "getCookies" /\ Has(ret.added)
  /\ isCookieDomainDotPrefixed(Added)
  /\ Has(Added.path) /\ Has(Added.httpOnly)
  /\ Len(ret.value) = 2

\* the cookie is associated with the document as the specification has it:
\* its path is a string prefix of the path of the URL and the host of the URL
\* contains its domain
Associated(d, cookie) ==
  /\ IsPrefix(The(cookie.path), URL(d.url).pathname)
  /\ Includes(URL(d.url).hostname, The(cookie.domain))
\* the cookies of the jar with the name that are associated
Matching(d, name) ==
  {c \in {getCookies(d)[i] : i \in 1..Len(d.jar)} :
     c.name = name /\ Associated(d, c)}

\* C13: getNamedCookie(name) returns a cookie only if it is in the jar, has
\* the name and is associated with the current document; when there is no
\* such cookie it raises NoSuchCookie; it never returns undefined.
C13_NamedCookieOrNoSuchCookie ==
  ret.op = "getNamedCookie"
  => /\ ret.error \in {"none", "NoSuchCookie"}
     /\ ret.error = "none"
        => Has(ret.value) /\ The(ret.value) \in Matching(ret.pre, ret.arg)
     /\ Matching(ret.pre, ret.arg) = {} => ret.error = "NoSuchCookie"

\* C15: after addCookie of a cookie with a valid expiry e, getCookies()
\* returns that cookie with the integer expiry e; and no cookie getCookies()
\* returns has an expiry that is NaN, nor the jar's expires or creation.
C15_ExpiryRoundTrip ==
  ret.op = "getCookies"
  => /\ (Has(ret.added) /\ Has(Added.expiry))
        => \E i \in 1..Len(ret.value) :
             /\ ret.value[i].name = The(Added.name)
             /\ ret.value[i].expiry = Some(Num(The(Added.expiry)))
     /\ \A i \in 1..Len(ret.value) :
          /\ ret.value[i].expiry # Some(NaN)
          /\ ret.value[i].expires = None
          /\ ret.value[i].creation = None

(***************************************************************************)
(* The known elements: Browser.getKnownElement, and the registrations of   *)
(* Session.elementRetrieval                                                *)
(***************************************************************************)
\* the handles a client may send: every handle a session of this size can
\* have issued, and one more
Handles == 1..(MaxLocates * MaxElements + 1)

\* lines 311-314: forEach keeps the last known element with the handle
RECURSIVE FoundElement(_, _, _)
FoundElement(known, elementId, found) ==
  IF known = <<>> THEN found
  ELSE FoundElement(Tail(known), elementId,
                    IF Head(known).handle = elementId THEN Some(Head(known))
                    ELSE found)
\* a lookup that hands the miss to the caller
getKnownElementOrNull(known, elementId) ==
  [error |-> "none", value |-> FoundElement(known, elementId, None),
   known |-> known]
\* Browser.getKnownElement, lines 310-317: the element, or NoSuchElement; and
\* the known elements it leaves
getKnownElement(known, elementId) ==
  LET foundElement == FoundElement(known, elementId, None)
  IN IF ~Has(foundElement)
     THEN [error |-> "NoSuchElement", value |-> None, known |-> known]
     ELSE [error |-> "none", value |-> foundElement, known |-> known]

GetKnownElement(elementId) ==
  /\ loc.pc # "loop"
  /\ LET r == getKnownElement(browser.knownElements, elementId)
     IN /\ browser' = [browser EXCEPT !.knownElements = r.known]
        /\ ret' = [ret EXCEPT !.op = "getKnownElement", !.arg = elementId,
                              !.error = r.error, !.value = r.value,
                              !.pre = browser.knownElements,
                              !.after = r.known]
  /\ UNCHANGED <<id, timeouts, requestQueue, submitted, pc, response,
                 startOrder, doneOrder, call, caps, loc, nav, dom, conf, pageLoadStrategy>>

\* the constructor's state: the implicit timeout is 0, so that a locate makes
\* its attempts without the clock moving
InitElements ==
  /\ Constructor
  /\ NothingCalled
  /\ call = NoCall
  /\ caps = NoCaps
  /\ loc = NoLoc

NextElements ==
  \/ \E strategy \in StrategyInputs : Locate(strategy)
  \/ Attempt
  \/ \E e \in Elements : ElementAppears(e)
  \/ \E elementId \in Handles : GetKnownElement(elementId)

SpecElements == InitElements /\ [][NextElements]_vars

\* the known elements registered under the handle
Registered(known, handle) ==
  {known[i] : i \in {j \in 1..Len(known) : known[j].handle = handle}}

\* C14: getKnownElement(handle) returns the element registered under the
\* handle when there is one and raises NoSuchElement when there is none; it
\* returns no null or undefined and leaves the known elements as they were.
C14_KnownElementOrNoSuchElement ==
  ret.op = "getKnownElement"
  => /\ ret.after = ret.pre
     /\ Registered(ret.pre, ret.arg) # {}
        => /\ ret.error = "none"
           /\ Has(ret.value)
           /\ The(ret.value) \in Registered(ret.pre, ret.arg)
     /\ Registered(ret.pre, ret.arg) = {}
        => ret.error = "NoSuchElement" /\ ~Has(ret.value)
C14_Witness ==
  /\ ret.op = "getKnownElement"
  /\ Len(ret.pre) >= 2
  /\ ret.error = "none"
  /\ The(ret.value) = ret.pre[1]

\* C16: the known elements are a one-to-one mapping: an element has at most
\* one entry, and a handle stands for one element.
C16_RegistryOneToOne ==
  \A i \in 1..Len(browser.knownElements) :
    \A j \in 1..Len(browser.knownElements) :
      /\ browser.knownElements[i].element = browser.knownElements[j].element
         => i = j
      /\ browser.knownElements[i].handle = browser.knownElements[j].handle
         => i = j

\* C20: a locate with a strategy string that is none of the five fails with
\* InvalidArgument: that is the error the caller gets, and no turn of the
\* loop follows the one that met the string.
C20_UnknownStrategyInvalidArgument ==
  (loc.calls > 0 /\ loc.strategy \notin LocationStrategies)
  => /\ loc.pc = "threw" => loc.error = "InvalidArgument"
     /\ loc.pc \in {"loop", "threw"}
     /\ loc.attempts <= 1

(***************************************************************************)
(* Session creation: Session.configureSession, configureCapabilties        *)
(***************************************************************************)
\* The timeouts objects a client may send in this part: one field, valid
\* (500) or not (-1)
SessionTimeoutArgs ==
  {<<<<"implicit", IntV(500)>>>>, <<<<"script", IntV(500)>>>>,
   <<<<"implicit", IntV(-1)>>>>}
\* The request bodies of this part: no capabilities at all; or alwaysMatch
\* empty, with timeouts, with a page load strategy or with the name of
\* another browser, and firstMatch absent, [{}] or [{timeouts}]
SessionAlways ==
  {<<>>, <<<<"browserName", StrV("not-pluma")>>>>,
   <<<<"pageLoadStrategy", StrV("eager")>>>>}
  \cup {<<<<"timeouts", ObjV(t)>>>> : t \in SessionTimeoutArgs}
SessionFirst ==
  {<< <<>> >>} \cup {<< <<<<"timeouts", ObjV(t)>>>> >> : t \in SessionTimeoutArgs}
SessionRequests ==
  {CapRequest(FALSE, FALSE, <<>>, FALSE, <<>>)}
  \cup {CapRequest(TRUE, TRUE, a, FALSE, <<>>) : a \in SessionAlways}
  \cup {CapRequest(TRUE, TRUE, <<>>, TRUE, f) : f \in SessionFirst}
  \cup {CapRequest(TRUE, TRUE, <<<<"timeouts", ObjV(t)>>>>, TRUE, f) :
          t \in SessionTimeoutArgs, f \in SessionFirst}

\* lines 171-181: the fields of capabilities.timeouts that are its own are
\* written to the store, at this point with no validation
RECURSIVE ConfigureTimeouts(_, _, _)
ConfigureTimeouts(t, requested, fields) ==
  IF fields = <<>> THEN t
  ELSE ConfigureTimeouts(
         IF HasKey(requested, Head(fields))
         THEN AssignTimeout(t, Head(fields), Get(requested, Head(fields)))
         ELSE t,
         requested, Tail(fields))
\* the same, without the hasOwnProperty tests
RECURSIVE ConfigureTimeoutsUntested(_, _, _)
ConfigureTimeoutsUntested(t, requested, fields) ==
  IF fields = <<>> THEN t
  ELSE ConfigureTimeoutsUntested(
         AssignTimeout(t, Head(fields),
                       IF HasKey(requested, Head(fields))
                       THEN Get(requested, Head(fields)) ELSE Undefined),
         requested, Tail(fields))
\* the properties of capabilities.timeouts: none when it is not an object
OwnProperties(value) == IF value.k = "obj" THEN value.s ELSE <<>>
configuredStoreUntested(t, capabilities) ==
  IF HasKey(capabilities, "timeouts")
  THEN ConfigureTimeoutsUntested(t, OwnProperties(Get(capabilities, "timeouts")),
                                 <<"implicit", "script", "pageLoad">>)
  ELSE t
\* lines 171-181
configuredStore(t, capabilities) ==
  IF HasKey(capabilities, "timeouts")
  THEN ConfigureTimeouts(t, OwnProperties(Get(capabilities, "timeouts")),
                         <<"implicit", "script", "pageLoad">>)
  ELSE t

\* lines 183-187: the three fields of the store
configuredTimeouts(t) ==
  ObjV(<<<<"implicit", t.implicit>>, <<"pageLoad", t.pageLoad>>,
         <<"script", t.script>>>>)

\* lines 154-192, once processCapabilities has returned or thrown (out): the
\* error thrown, or the capabilities returned with the store and the
\* pageLoadStrategy the call leaves
Configured(t, strategy, out) ==
  LET capabilities == out.value
      given == /\ HasKey(capabilities, "pageLoadStrategy")
               /\ Get(capabilities, "pageLoadStrategy").k = "str"
      withStrategy == IF given THEN capabilities
                      ELSE Assign(capabilities, "pageLoadStrategy",
                                  StrV("normal"))
      withProxy == IF HasKey(withStrategy, "proxy") THEN withStrategy
                   ELSE Assign(withStrategy, "proxy", ObjV(<<>>))
      store == configuredStore(t, capabilities)
  IN IF out.error # "none"
     THEN [error |-> out.error, capabilities |-> <<>>, timeouts |-> t,
           pageLoadStrategy |-> strategy]
     ELSE [error |-> "none",
           capabilities |-> Assign(withProxy, "timeouts",
                                   configuredTimeouts(store)),
           timeouts |-> store,
           pageLoadStrategy |-> IF given
                                THEN Get(capabilities, "pageLoadStrategy")
                                ELSE StrV("normal")]

\* Session.configureCapabilties(request), lines 152-193, on the store t
configureCapabilties(t, strategy, request) ==
  Configured(t, strategy, processCapabilities(request))


\* lines 136 and 138-145, with what configureCapabilties returned or threw:
\* the id is drawn first; if configureCapabilties threw, nothing else is
\* written; otherwise the browser and the queue are replaced. uuidv1() is
\* the next number never handed out.
Created(s, configured) ==
  LET sessionId == s.id + 1
  IN IF configured.error # "none"
     THEN [error |-> configured.error, id |-> sessionId,
           timeouts |-> configured.timeouts,
           pageLoadStrategy |-> configured.pageLoadStrategy,
           browser |-> s.browser, requestQueue |-> s.requestQueue,
           dom |-> s.dom,
           body |-> [sessionId |-> 0, capabilities |-> <<>>]]
     ELSE [error |-> "none", id |-> sessionId,
           timeouts |-> configured.timeouts,
           pageLoadStrategy |-> configured.pageLoadStrategy,
           browser |-> NewBrowser, requestQueue |-> <<>>,
           dom |-> NewDom,
           body |-> [sessionId |-> sessionId,
                     capabilities |-> configured.capabilities]]

\* Session.configureSession(requestedCapabilities), lines 135-146, on the
\* session s
configureSession(s, request) ==
  Created(s, configureCapabilties(s.timeouts, s.pageLoadStrategy, request))

ConfigureSession(request) ==
  /\ id < MaxSessions
  /\ \E r \in {configureSession(
                  [id |-> id, timeouts |-> timeouts, browser |-> browser,
                   pageLoadStrategy |-> pageLoadStrategy,
                   requestQueue |-> requestQueue, dom |-> dom], request)} :
        /\ id' = r.id
        /\ timeouts' = r.timeouts
        /\ pageLoadStrategy' = r.pageLoadStrategy
        /\ browser' = r.browser
        /\ requestQueue' = r.requestQueue
        /\ dom' = r.dom
        /\ conf' = [op |-> "configureSession", request |-> request,
                    error |-> r.error, body |-> r.body,
                    pre |-> [id |-> id, timeouts |-> timeouts],
                    after |-> [id |-> r.id, timeouts |-> r.timeouts,
                               browser |-> r.browser,
                               requestQueue |-> r.requestQueue]]
  /\ UNCHANGED <<submitted, pc, response, startOrder, doneOrder,
                 call, caps, loc, nav, ret>>

\* a session that has already located one element, and one that holds a
\* request waiting in its queue
UsedBrowser ==
  [NewBrowser EXCEPT !.knownElements = Register(<<>>, <<1>>)]

UsedQueue ==
  /\ requestQueue = <<Request(1, "GET TITLE", 0)>>
  /\ submitted = requestQueue
  /\ pc = [n \in RequestIds |-> IF n = 1 THEN "waiting" ELSE "none"]
  /\ response = [n \in RequestIds |-> Undefined]
  /\ startOrder = <<>>
  /\ doneOrder = <<>>

InitSession ==
  /\ id = 0
  /\ timeouts = ConstructorTimeouts
  /\ browser \in {NewBrowser, UsedBrowser}
  /\ \/ QueueInit
     \/ UsedQueue
  /\ NothingCalled
  /\ call = NoCall
  /\ caps = NoCaps
  /\ loc = NoLoc

NextSession ==
  \/ \E request \in SessionRequests : ConfigureSession(request)
  \/ \E arg \in SessionTimeoutArgs : SetTimeouts(arg)

SpecSession == InitSession /\ [][NextSession]_vars


\* the timeouts a negotiation resolved: the properties of the timeouts
\* capability of the matched capabilities, none when it holds none
RequestedTimeouts(request) ==
  LET capabilities == processCapabilities(request).value
  IN IF HasKey(capabilities, "timeouts")
     THEN OwnProperties(Get(capabilities, "timeouts"))
     ELSE <<>>

\* C17: in every state reached by configureSession and setTimeouts calls,
\* failing or not, the timeouts record has exactly the fields script, pageLoad
\* and implicit, and each of them is a non-negative integer.
C17_TimeoutsWellFormed ==
  /\ DOMAIN timeouts = TimeoutKeys
  /\ \A key \in TimeoutKeys : timeouts[key].k = "int" /\ timeouts[key].n >= 0

\* a session created with a timeouts capability, then a setTimeouts call that
\* was refused, the store holding values other than the constructor's
C17_Witness ==
  /\ conf.op = "configureSession"
  /\ conf.error = "none"
  /\ RequestedTimeouts(conf.request) # <<>>
  /\ call.op = "setTimeouts"
  /\ call.threw
  /\ timeouts # ConstructorTimeouts

\* C18: a successful configureSession leaves a fresh session: a new id, an
\* empty command queue, no known element, a new browser, and the default
\* timeouts overlaid with the timeouts of this negotiation only.
C18_FreshSession ==
  (conf.op = "configureSession" /\ conf.error = "none") =>
    /\ conf.after.id # conf.pre.id
    /\ conf.body.sessionId = conf.after.id
    /\ conf.after.requestQueue = <<>>
    /\ conf.after.browser = NewBrowser
    /\ conf.after.timeouts
         = ApplyAll(ConstructorTimeouts, RequestedTimeouts(conf.request))


\* C23: a configureSession call whose negotiation fails leaves the session as
\* it was: the id, the timeouts, the pageLoadStrategy, the command queue and
\* the browser keep the values they had before the call.
C23_FailedCreationChangesNothing ==
  [][(conf' # conf /\ conf'.op = "configureSession" /\ conf'.error # "none")
       => UNCHANGED <<id, timeouts, pageLoadStrategy, requestQueue, browser>>]_vars


(***************************************************************************)
(* The link text strategies of elementRetrieval                            *)
(***************************************************************************)
MaxAnchors == 2

\* the innerHTML of an anchor and the selector are strings: sequences of
\* characters
LinkTexts ==
  {<<>>, <<"a">>, <<" ", "a">>, <<"a", " ">>, <<"a", "b">>, <<"b">>}
Selectors == {<<"a">>, <<"b">>, <<"a", "b">>}
\* startNode.querySelectorAll('a'): the anchors under startNode in document
\* order, each one its innerHTML
LinkDocuments == UNION {[1..n -> LinkTexts] : n \in 0..MaxAnchors}
LinkStrategies == {"link text", "partial link text"}

\* String.prototype.trim
RECURSIVE trimStart(_)
trimStart(text) ==
  IF text # <<>> /\ Head(text) = " " THEN trimStart(Tail(text)) ELSE text
RECURSIVE trimEnd(_)
trimEnd(text) ==
  IF text # <<>> /\ text[Len(text)] = " "
  THEN trimEnd(SubSeq(text, 1, Len(text) - 1))
  ELSE text
trim(text) == trimEnd(trimStart(text))

\* lines 346-348: whether the anchor is pushed on strategyResult
LinkMatches(renderedText, selector, partial) ==
  \/ ~partial /\ trim(renderedText) = selector
  \/ partial /\ Includes(renderedText, selector)

\* lines 345-349: linkElements.forEach, from the i-th anchor on
RECURSIVE LinkResult(_, _, _, _, _)
LinkResult(linkElements, i, selector, partial, strategyResult) ==
  IF i > Len(linkElements) THEN strategyResult
  ELSE LinkResult(linkElements, i + 1, selector, partial,
                  IF LinkMatches(linkElements[i], selector, partial)
                  THEN Append(strategyResult, i)
                  ELSE strategyResult)

\* linkTextSelector(partial), lines 341-351: the matches are collected in
\* strategyResult, and line 350 returns `result`, the array of line 335
linkTextSelector(startNode, selector, partial, result) ==
  [strategyResult |-> LinkResult(startNode, 1, selector, partial, <<>>),
   returned |-> result]

\* elementRetrieval(startNode, strategy, selector) with a link text
\* strategy. endTime is Invalid Date, so the loop of lines 360-388 makes one
\* attempt; `elements` is then the array `result` itself, empty, and lines
\* 390-394 register what it holds.
LocateLinks(startNode, strategy, selector) ==
  /\ ret.calls < MaxLocates
  /\ LET r == linkTextSelector(startNode, selector,
                               strategy = "partial link text", <<>>)
         known == Register(browser.knownElements, r.returned)
     IN /\ browser' = [browser EXCEPT !.knownElements = known]
        /\ ret' = [ret EXCEPT
                     !.op = "elementRetrieval", !.calls = @ + 1,
                     !.arg = [startNode |-> startNode, strategy |-> strategy,
                              selector |-> selector],
                     !.pre = r.strategyResult,
                     !.value = SubSeq(known, Len(browser.knownElements) + 1,
                                      Len(known))]
  /\ UNCHANGED <<id, timeouts, requestQueue, submitted, pc, response,
                 startOrder, doneOrder, call, caps, loc, nav, dom, conf,
                 pageLoadStrategy>>

NextLinks ==
  \E startNode \in LinkDocuments : \E strategy \in LinkStrategies :
    \E selector \in Selectors : LocateLinks(startNode, strategy, selector)

SpecLinks == InitElements /\ [][NextLinks]_vars

\* the anchors the strategy is to yield: those whose trimmed text is the
\* selector, or whose text holds the selector
ExpectedLinks(startNode, strategy, selector) ==
  {i \in 1..Len(startNode) :
     IF strategy = "link text"
     THEN trim(startNode[i]) = selector
     ELSE \E from \in 1..Len(startNode[i]) : \E to \in from..Len(startNode[i]) :
            SubSeq(startNode[i], from, to) = selector}

\* C21: a locate by `link text` yields exactly the anchors whose trimmed text
\* equals the selector, one by `partial link text` exactly the anchors whose
\* text contains the selector; so the result is not empty when there are
\* such anchors.
C21_LinkTextYieldsMatchingAnchors ==
  ret.op = "elementRetrieval" =>
    {ret.value[i].element : i \in 1..Len(ret.value)}
      = ExpectedLinks(ret.arg.startNode, ret.arg.strategy, ret.arg.selector)


(***************************************************************************)
(* Browser.deleteCookies                                                   *)
(***************************************************************************)
\* the patterns a caller may pass: /x/, /./ and /m/
CookiePatterns == {<<"x">>, <<".">>, <<"m">>}

\* pattern.test(text) of a pattern with no anchor: a match may start anywhere
PatternTest(pattern, text) ==
  \E i \in 1..(Len(text) + 1) : RegExpTest(pattern, From(text, i))

\* store.removeCookie(domain, path, key) of the memory store
removeCookie(jar, domain, path, key) ==
  LET Other(c) == ~(c.domain = domain /\ c.path = path /\ c.key = key)
  IN SelectSeq(jar, Other)

\* lines 298-302: forEach over the filtered cookies, from the i-th on; a
\* removal whose callback gets an error (failing) leaves the jar and calls
\* reject, and the next cookie is handled all the same
RECURSIVE RemoveEach(_, _, _, _, _)
RemoveEach(jar, cookies, selected, failing, i) ==
  IF i > Len(cookies) THEN jar
  ELSE RemoveEach(
         IF i \in selected /\ i \notin failing
         THEN removeCookie(jar, The(cookies[i].domain), The(cookies[i].path),
                           cookies[i].name)
         ELSE jar,
         cookies, selected, failing, i + 1)

\* Browser.deleteCookies(pattern), lines 291-305, on the dom d, the removals
\* of the cookies at the positions `failing` failing: how the promise
\* settles (the first of reject(err) and resolve() wins) and the dom it leaves
deleteCookies(d, pattern, failing) ==
  LET cookies == getCookies(d)
      selected == {i \in 1..Len(cookies) :
                     /\ PatternTest(pattern, cookies[i].name)
                     /\ isAssociatedCookie(d, cookies[i])}
  IN [error |-> IF selected \cap failing # {} THEN "rejected" ELSE "none",
      dom |-> [d EXCEPT !.jar = RemoveEach(d.jar, cookies, selected, failing, 1)]]

DeleteCookies(pattern, failing) ==
  /\ LET r == deleteCookies(dom, pattern, failing)
     IN /\ dom' = r.dom
        /\ ret' = [ret EXCEPT !.op = "deleteCookies", !.arg = pattern,
                              !.error = r.error, !.value = failing,
                              !.pre = dom, !.after = r.dom]
  /\ UNCHANGED <<id, timeouts, browser, requestQueue, submitted, pc, response,
                 startOrder, doneOrder, call, caps, loc, nav, conf,
                 pageLoadStrategy>>

NextDelete ==
  \/ \E cookie \in CookieInputs : AddCookie(cookie)
  \/ \E pattern \in CookiePatterns : \E failing \in SUBSET (1..Len(dom.jar)) :
       DeleteCookies(pattern, failing)

SpecDelete == InitCookies /\ [][NextDelete]_vars

\* the positions in the jar of the cookies deleteCookies is to remove: those
\* with a name the pattern matches that are associated with the document
ToRemove(d, pattern) ==
  {i \in 1..Len(d.jar) :
     /\ PatternTest(pattern, getCookies(d)[i].name)
     /\ Associated(d, getCookies(d)[i])}
\* the cookies of the jar at the positions kept, in their order
RECURSIVE KeptFrom(_, _, _)
KeptFrom(jar, kept, i) ==
  IF i > Len(jar) THEN <<>>
  ELSE (IF i \in kept THEN <<jar[i]>> ELSE <<>>) \o KeptFrom(jar, kept, i + 1)

\* C22: deleteCookies(pattern) removes exactly the cookies associated with
\* the document whose name matches the pattern: afterwards getCookies()
\* returns none of them, the other cookies are as they were, and a removal
\* that fails leaves the other matching cookies removed all the same.
C22_DeletesExactlyMatching ==
  ret.op = "deleteCookies" =>
    LET removed == ToRemove(ret.pre, ret.arg) \ ret.value
    IN ret.after.jar
         = KeptFrom(ret.pre.jar, (1..Len(ret.pre.jar)) \ removed, 1)

====
